---- MODULE Spec2Model ----
(***************************************************************************)
(* Model of src/app.py: the Flask handlers predict() (POST /predict) and   *)
(* insights() (POST /insights).                                            *)
(*                                                                         *)
(* Python floats are IEEE-754 binary64 numbers.  The handlers' arithmetic  *)
(* is modelled bit-exactly: a float is a sign, a 53-bit mantissa and an    *)
(* exponent, every operation rounds to nearest, ties to even.  Mantissas   *)
(* do not fit the model checker's integers, so they are kept as sequences  *)
(* of 15-bit limbs, least significant first.                               *)
(***************************************************************************)
EXTENDS Integers, Sequences, FiniteSets, TLC

(***************************************************************************)
(* Natural numbers of any size: <<>> is 0, the last limb is never 0.       *)
(***************************************************************************)
LimbBits == 15
LimbBase == 32768
MantBits == 53
DivGuardBits == 75

RECURSIVE Pow2(_)
Pow2(n) == IF n = 0 THEN 1 ELSE 2 * Pow2(n - 1)

Min(a, b) == IF a < b THEN a ELSE b
Max(a, b) == IF a > b THEN a ELSE b
Abs(n) == IF n < 0 THEN -n ELSE n

RECURSIVE BNorm(_)
BNorm(a) ==
    IF a = <<>> THEN <<>>
    ELSE IF a[Len(a)] = 0 THEN BNorm(SubSeq(a, 1, Len(a) - 1))
    ELSE a

RECURSIVE BFromInt(_)
BFromInt(n) ==
    IF n = 0 THEN <<>> ELSE <<n % LimbBase>> \o BFromInt(n \div LimbBase)

RECURSIVE BToInt(_)
BToInt(a) ==
    IF a = <<>> THEN 0 ELSE Head(a) + LimbBase * BToInt(Tail(a))

RECURSIVE BCmpFrom(_, _, _)
BCmpFrom(a, b, i) ==
    IF i = 0 THEN 0
    ELSE IF a[i] < b[i] THEN -1
    ELSE IF a[i] > b[i] THEN 1
    ELSE BCmpFrom(a, b, i - 1)

BCmp(a, b) ==
    IF Len(a) < Len(b) THEN -1
    ELSE IF Len(a) > Len(b) THEN 1
    ELSE BCmpFrom(a, b, Len(a))

RECURSIVE BAddC(_, _, _)
BAddC(a, b, c) ==
    IF a = <<>> /\ b = <<>> THEN (IF c = 0 THEN <<>> ELSE <<c>>)
    ELSE LET x == IF a = <<>> THEN 0 ELSE Head(a)
             y == IF b = <<>> THEN 0 ELSE Head(b)
             t == x + y + c
         IN  <<t % LimbBase>>
             \o BAddC(IF a = <<>> THEN <<>> ELSE Tail(a),
                      IF b = <<>> THEN <<>> ELSE Tail(b),
                      t \div LimbBase)

BAdd(a, b) == BAddC(a, b, 0)

RECURSIVE BSubC(_, _, _)
BSubC(a, b, c) ==
    IF a = <<>> THEN <<>>
    ELSE LET y == IF b = <<>> THEN 0 ELSE Head(b)
             t == Head(a) - y - c
         IN  <<IF t < 0 THEN t + LimbBase ELSE t>>
             \o BSubC(Tail(a), IF b = <<>> THEN <<>> ELSE Tail(b),
                      IF t < 0 THEN 1 ELSE 0)

\* a - b for a >= b
BSub(a, b) == BNorm(BSubC(a, b, 0))

RECURSIVE BMulSmallC(_, _, _)
BMulSmallC(a, k, c) ==
    IF a = <<>> THEN (IF c = 0 THEN <<>> ELSE <<c>>)
    ELSE LET t == Head(a) * k + c
         IN  <<t % LimbBase>> \o BMulSmallC(Tail(a), k, t \div LimbBase)

\* a * k for 0 <= k < LimbBase
BMulSmall(a, k) == IF k = 0 THEN <<>> ELSE BMulSmallC(a, k, 0)

BShiftLimb(a) == IF a = <<>> THEN <<>> ELSE <<0>> \o a

RECURSIVE BMul(_, _)
BMul(a, b) ==
    IF a = <<>> \/ b = <<>> THEN <<>>
    ELSE BAdd(BMulSmall(a, Head(b)), BShiftLimb(BMul(a, Tail(b))))

\* a divided by k, 0 < k < LimbBase, from the top limb down: the remainder,
\* then the limbs of the quotient
RECURSIVE BDivSmallFrom(_, _, _, _)
BDivSmallFrom(a, k, i, r) ==
    IF i = 0 THEN <<r>>
    ELSE BDivSmallFrom(a, k, i - 1, (r * LimbBase + a[i]) % k)
         \o <<(r * LimbBase + a[i]) \div k>>

BDivUnpack(d) == [q |-> BNorm(Tail(d)), r |-> Head(d)]

\* quotient q and remainder r of a by k
BDivSmall(a, k) == BDivUnpack(BDivSmallFrom(a, k, Len(a), 0))

Zeros(n) == [i \in 1..n |-> 0]

BShl(a, n) ==
    IF a = <<>> THEN <<>>
    ELSE Zeros(n \div LimbBits) \o BMulSmall(a, Pow2(n % LimbBits))

BShr(a, n) ==
    IF n \div LimbBits >= Len(a) THEN <<>>
    ELSE BDivSmall(SubSeq(a, n \div LimbBits + 1, Len(a)), Pow2(n % LimbBits)).q

RECURSIVE IntBitLen(_)
IntBitLen(n) == IF n = 0 THEN 0 ELSE 1 + IntBitLen(n \div 2)

BBitLen(a) ==
    IF a = <<>> THEN 0 ELSE LimbBits * (Len(a) - 1) + IntBitLen(a[Len(a)])

\* bit i (from 0) of a
BBit(a, i) ==
    IF i < 0 \/ i \div LimbBits >= Len(a) THEN 0
    ELSE (a[i \div LimbBits + 1] \div Pow2(i % LimbBits)) % 2

\* whether any of the lowest n bits of a is set
BLowNonZero(a, n) ==
    IF n <= 0 THEN FALSE
    ELSE \/ \E j \in 1..Min(n \div LimbBits, Len(a)) : a[j] # 0
         \/ /\ n \div LimbBits < Len(a)
            /\ a[n \div LimbBits + 1] % Pow2(n % LimbBits) # 0

\* a mod b for b > 0, by repeated subtraction (the quotients here are small)
RECURSIVE BMod(_, _)
BMod(a, b) == IF BCmp(a, b) < 0 THEN a ELSE BMod(BSub(a, b), b)

(***************************************************************************)
(* binary64 values: (-1)^s * m * 2^e, with m = <<>> (zero, signed) or      *)
(* 2^52 <= m < 2^53.  The handlers' values stay far from the subnormal and *)
(* overflow ranges, so the exponent is unbounded here.                     *)
(***************************************************************************)
FZero(s) == [s |-> s, m |-> <<>>, e |-> 0]

IsZero(x) == x.m = <<>>

\* The float nearest (M + d) * 2^e, ties to even, where 0 < d < 1 if sticky and
\* d = 0 otherwise; a sticky M has more than MantBits bits.
\* Round half to even: the cut-off bits are above half, or half and q is odd
RoundsUp(M, k, q, sticky) ==
    /\ BBit(M, k - 1) = 1
    /\ (sticky \/ BLowNonZero(M, k - 1) \/ BBit(q, 0) = 1)

\* A carry out of the mantissa moves the exponent
FRenorm(s, q, e) ==
    IF BBitLen(q) > MantBits
    THEN [s |-> s, m |-> BShr(q, 1), e |-> e + 1]
    ELSE [s |-> s, m |-> q, e |-> e]

FRoundCut(s, M, e, sticky, k, q) ==
    FRenorm(s, IF RoundsUp(M, k, q, sticky) THEN BAdd(q, <<1>>) ELSE q, e + k)

FRoundLen(s, M, e, sticky, L) ==
    IF L <= MantBits
    THEN [s |-> s, m |-> BShl(M, MantBits - L), e |-> e - (MantBits - L)]
    ELSE FRoundCut(s, M, e, sticky, L - MantBits, BShr(M, L - MantBits))

FRound(s, M, e, sticky) ==
    IF M = <<>> THEN FZero(s) ELSE FRoundLen(s, M, e, sticky, BBitLen(M))

FRoundDiv(s, d, e) == FRound(s, d.q, e, d.r # 0)

\* The float nearest num/den (a JSON number, a literal, int / int), 0 < den < LimbBase
FromRatio(num, den) ==
    IF num = 0 THEN FZero(0)
    ELSE FRoundDiv(IF num < 0 THEN 1 ELSE 0,
                   BDivSmall(BShl(BFromInt(Abs(num)), DivGuardBits), den),
                   -DivGuardBits)

FromInt(n) == FromRatio(n, 1)

FNeg(x) == [x EXCEPT !.s = 1 - x.s]

\* -1, 0, 1 as |x| <, =, > |y|
FCmpMag(x, y) ==
    IF IsZero(x) /\ IsZero(y) THEN 0
    ELSE IF IsZero(x) THEN -1
    ELSE IF IsZero(y) THEN 1
    ELSE BCmp(BShl(x.m, x.e - Min(x.e, y.e)), BShl(y.m, y.e - Min(x.e, y.e)))

\* x < y
FLess(x, y) ==
    IF IsZero(x) /\ IsZero(y) THEN FALSE
    ELSE IF x.s = 1 /\ y.s = 0 THEN TRUE
    ELSE IF x.s = 0 /\ y.s = 1 THEN FALSE
    ELSE IF x.s = 0 THEN FCmpMag(x, y) < 0
    ELSE FCmpMag(x, y) > 0

\* x == y as Python compares floats (-0.0 == 0.0)
FEq(x, y) == ~FLess(x, y) /\ ~FLess(y, x)

\* X * 2^e and Y * 2^e with their signs, added exactly, then rounded
FAddAligned(xs, X, ys, Y, e) ==
    IF xs = ys THEN FRound(xs, BAdd(X, Y), e, FALSE)
    ELSE IF BCmp(X, Y) = 0 THEN FZero(0)
    ELSE IF BCmp(X, Y) > 0 THEN FRound(xs, BSub(X, Y), e, FALSE)
    ELSE FRound(ys, BSub(Y, X), e, FALSE)

FAdd(x, y) ==
    IF IsZero(x) /\ IsZero(y) THEN FZero(IF x.s = 1 /\ y.s = 1 THEN 1 ELSE 0)
    ELSE IF IsZero(x) THEN y
    ELSE IF IsZero(y) THEN x
    ELSE FAddAligned(x.s, BShl(x.m, x.e - Min(x.e, y.e)),
                     y.s, BShl(y.m, y.e - Min(x.e, y.e)), Min(x.e, y.e))

FSub(x, y) == FAdd(x, FNeg(y))

FMul(x, y) ==
    IF IsZero(x) \/ IsZero(y) THEN FZero((x.s + y.s) % 2)
    ELSE FRound((x.s + y.s) % 2, BMul(x.m, y.m), x.e + y.e, FALSE)

\* x / k for an integer 0 < k < LimbBase
FDivInt(x, k) ==
    IF IsZero(x) THEN x
    ELSE FRoundDiv(x.s, BDivSmall(BShl(x.m, DivGuardBits), k),
                   x.e - DivGuardBits)

\* C fmod(x, w), w > 0: exact, with the sign of x
FFmod(x, w) ==
    IF IsZero(x) THEN x
    ELSE FRound(x.s,
                BMod(BShl(x.m, x.e - Min(x.e, w.e)),
                     BShl(w.m, w.e - Min(x.e, w.e))),
                Min(x.e, w.e), FALSE)

\* Python's x % w on floats for w > 0 (float_rem): fmod, moved into the
\* divisor's sign by adding w, and that addition rounds
PyModSign(mod, w) ==
    IF ~IsZero(mod)
    THEN (IF mod.s = 1 THEN FAdd(mod, w) ELSE mod)
    ELSE FZero(0)

PyMod(x, w) == PyModSign(FFmod(x, w), w)

\* Python's int(x): truncation towards zero (the values here fit an integer)
PyIntMag(x) ==
    IF x.e >= 0 THEN BToInt(BShl(x.m, x.e)) ELSE BToInt(BShr(x.m, -x.e))

PyInt(x) ==
    IF IsZero(x) THEN 0 ELSE IF x.s = 1 THEN -PyIntMag(x) ELSE PyIntMag(x)

\* Python's round(x, ndigits) for scale = 10^ndigits: the decimal with ndigits
\* places nearest the float's exact value, ties to even.  The result is the
\* float nearest n / scale; it is kept as the signed integer n (neg tells
\* -0.0 from 0.0).
PyRoundPack(s, scale, n) ==
    [n |-> IF s = 1 THEN -n ELSE n, neg |-> s = 1, scale |-> scale]

PyRoundCut(s, scale, N, k, q) ==
    PyRoundPack(s, scale,
                BToInt(IF RoundsUp(N, k, q, FALSE) THEN BAdd(q, <<1>>) ELSE q))

\* N * 2^-k rounded to an integer
PyRoundAt(s, scale, N, k) ==
    PyRoundCut(s, scale, N, k, IF k <= 0 THEN BShl(N, -k) ELSE BShr(N, k))

PyRound(x, scale) == PyRoundAt(x.s, scale, BMulSmall(x.m, scale), -x.e)

\* |x - n/den| <= 2^-40 for integers n and den > 0
FNear(x, n, den) ==
    LET k  == IF IsZero(x) THEN 0 ELSE Max(0, -x.e)
        X  == IF IsZero(x) THEN <<>>
              ELSE BMul(BShl(x.m, x.e + k), BFromInt(den))
        Nn == BShl(BFromInt(Abs(n)), k)
        sx == IF IsZero(x) THEN 0 ELSE IF x.s = 1 THEN -1 ELSE 1
        sn == IF n < 0 THEN -1 ELSE IF n > 0 THEN 1 ELSE 0
        D  == IF sx = sn \/ sx = 0 \/ sn = 0
              THEN (IF BCmp(X, Nn) >= 0 THEN BSub(X, Nn) ELSE BSub(Nn, X))
              ELSE BAdd(X, Nn)
    IN  BCmp(BShl(D, 40), BShl(BFromInt(den), k)) <= 0

(***************************************************************************)
(* JSON values of a request body or a provider reply.  A string is the     *)
(* sequence of its characters; a number is num/den, a Python int when      *)
(* den = 1 and a float otherwise.  Numbers are finite.                     *)
(***************************************************************************)
JAbsent == [t |-> "absent", num |-> 0, den |-> 1, s |-> <<>>]
JNull == [t |-> "null", num |-> 0, den |-> 1, s |-> <<>>]
JNum(n, d) == [t |-> "num", num |-> n, den |-> d, s |-> <<>>]
JStr(str) == [t |-> "str", num |-> 0, den |-> 1, s |-> str]

\* dict.get(key) / dict.get(key, None): a missing key reads as None
Get(v) == IF v.t = "absent" THEN JNull ELSE v

\* Python truth value: None, 0, 0.0 and "" are falsy
Truthy(v) ==
    CASE v.t = "num" -> v.num # 0
      [] v.t = "str" -> v.s # <<>>
      [] OTHER -> FALSE

UpperChars == <<"A","B","C","D","E","F","G","H","I","J","K","L","M",
                "N","O","P","Q","R","S","T","U","V","W","X","Y","Z">>
LowerChars == <<"a","b","c","d","e","f","g","h","i","j","k","l","m",
                "n","o","p","q","r","s","t","u","v","w","x","y","z">>
Digits == <<"0","1","2","3","4","5","6","7","8","9">>

LowerChar(c) ==
    IF \E i \in DOMAIN UpperChars : UpperChars[i] = c
    THEN LowerChars[CHOOSE i \in DOMAIN UpperChars : UpperChars[i] = c]
    ELSE c

UpperChar(c) ==
    IF \E i \in DOMAIN LowerChars : LowerChars[i] = c
    THEN UpperChars[CHOOSE i \in DOMAIN LowerChars : LowerChars[i] = c]
    ELSE c

\* str.lower()
Lower(str) == [i \in DOMAIN str |-> LowerChar(str[i])]

\* str.capitalize(): first character upper case, the rest lower case
Capitalize(str) ==
    [i \in DOMAIN str |-> IF i = 1 THEN UpperChar(str[i]) ELSE LowerChar(str[i])]

IsDigit(c) == \E i \in DOMAIN Digits : Digits[i] = c
DigitVal(c) == (CHOOSE i \in DOMAIN Digits : Digits[i] = c) - 1

RECURSIVE DigitsVal(_)
DigitsVal(str) ==
    IF str = <<>> THEN 0
    ELSE 10 * DigitsVal(SubSeq(str, 1, Len(str) - 1)) + DigitVal(str[Len(str)])

AllDigits(str) == str # <<>> /\ \A i \in DOMAIN str : IsDigit(str[i])

(***************************************************************************)
(* datetime.strptime(s, "%d-%m-%Y") and the day count of a date.           *)
(* ParseFail stands for the ValueError / TypeError strptime raises.        *)
(***************************************************************************)
ParseFail == -1

IsLeap(y) == y % 4 = 0 /\ (y % 100 # 0 \/ y % 400 = 0)

DaysInMonth(y, m) ==
    IF m = 2 THEN (IF IsLeap(y) THEN 29 ELSE 28)
    ELSE IF m \in {4, 6, 9, 11} THEN 30 ELSE 31

RECURSIVE DaysBeforeMonth(_, _)
DaysBeforeMonth(y, m) ==
    IF m = 1 THEN 0 ELSE DaysBeforeMonth(y, m - 1) + DaysInMonth(y, m - 1)

\* date.toordinal(): 01-01-0001 is day 1
Ordinal(y, m, d) ==
    (y - 1) * 365 + (y - 1) \div 4 - (y - 1) \div 100 + (y - 1) \div 400
    + DaysBeforeMonth(y, m) + d

Dashes(str) == {i \in DOMAIN str : str[i] = "-"}

\* %d and %m take one or two digits (a number from 1), %Y exactly four; the
\* whole string must match, and the day must exist in that month
DayOrMonthField(f, max) ==
    /\ Len(f) \in {1, 2}
    /\ AllDigits(f)
    /\ DigitsVal(f) >= 1
    /\ DigitsVal(f) <= max

ParseDate(str) ==
    IF Cardinality(Dashes(str)) # 2 THEN ParseFail
    ELSE LET i  == CHOOSE k \in Dashes(str) : \A j \in Dashes(str) : k <= j
             j  == CHOOSE k \in Dashes(str) : k # i
             fd == SubSeq(str, 1, i - 1)
             fm == SubSeq(str, i + 1, j - 1)
             fy == SubSeq(str, j + 1, Len(str))
         IN  IF /\ DayOrMonthField(fd, 31)
                /\ DayOrMonthField(fm, 12)
                /\ Len(fy) = 4 /\ AllDigits(fy) /\ DigitsVal(fy) >= 1
                /\ DigitsVal(fd) <= DaysInMonth(DigitsVal(fy), DigitsVal(fm))
             THEN Ordinal(DigitsVal(fy), DigitsVal(fm), DigitsVal(fd))
             ELSE ParseFail

(***************************************************************************)
(* predict(): POST /predict                                                *)
(***************************************************************************)
\* The JSON object of a /predict request; a missing key is JAbsent
PredictBody(crop, temp, rain, date) ==
    [crop_type |-> crop, temperature |-> temp, rainfall |-> rain,
     planting_date |-> date]

Str(text) ==
    CASE text = "wheat"  -> <<"w","h","e","a","t">>
      [] text = "rice"   -> <<"r","i","c","e">>
      [] text = "maize"  -> <<"m","a","i","z","e">>
      [] text = "Rice"   -> <<"R","i","c","e">>
      [] text = "MAIZE"  -> <<"M","A","I","Z","E">>
      [] text = "barley" -> <<"b","a","r","l","e","y">>
      [] text = "abc"    -> <<"a","b","c">>
      [] text = ""       -> <<>>

\* base_yield, as num/den
BaseYield(crop) ==
    CASE crop = Str("wheat") -> [num |-> 4, den |-> 1]
      [] crop = Str("rice")  -> [num |-> 5, den |-> 1]
      [] crop = Str("maize") -> [num |-> 45, den |-> 10]
      [] OTHER               -> [num |-> 35, den |-> 10]

IdealTemp(crop) ==
    CASE crop = Str("wheat") -> [min |-> 18, max |-> 25]
      [] crop = Str("rice")  -> [min |-> 22, max |-> 30]
      [] crop = Str("maize") -> [min |-> 20, max |-> 28]
      [] OTHER               -> [min |-> 20, max |-> 30]

OptimalRainfall(crop) ==
    CASE crop = Str("wheat") -> [min |-> 40, max |-> 60]
      [] crop = Str("rice")  -> [min |-> 80, max |-> 120]
      [] crop = Str("maize") -> [min |-> 50, max |-> 90]
      [] OTHER               -> [min |-> 50, max |-> 100]

TempPenaltyRate == FromRatio(2, 10)
RainPenaltyRate == FromRatio(1, 10)
NotMaturedFactor == FromRatio(8, 10)
HarvestPassedFactor == FromRatio(9, 10)
NotMaturedDays == 60
HarvestPassedDays == 180
DefaultTemperature == 25
DefaultRainfall == 50
ConfidenceBase == 80
ConfidenceModulus == 5
ConfidenceMin == 50
ConfidenceMax == 95
YieldScale == 100

\* data.get("crop_type", "").lower(); None and numbers have no lower()
CropOk(body) == body.crop_type.t \in {"absent", "str"}
\* Faulty variant: the crop is looked up as typed, without lower()
CropCaseSensitive(body) ==
    IF body.crop_type.t = "absent" THEN <<>> ELSE body.crop_type.s

Crop(body) ==
    IF body.crop_type.t = "absent" THEN <<>> ELSE Lower(body.crop_type.s)

\* float(data.get(key, default)): a number converts, a string of digits
\* parses, None and any other string of the model raise
FloatOk(v) == v.t \in {"absent", "num"} \/ (v.t = "str" /\ AllDigits(v.s))
ToFloat(v, default) ==
    CASE v.t = "absent" -> FromInt(default)
      [] v.t = "num"    -> FromRatio(v.num, v.den)
      [] OTHER          -> FromInt(DigitsVal(v.s))

\* Step 2 and step 3: the penalty outside [lo, hi] at the given rate
Adjust(y, value, range, rate) ==
    IF FLess(value, FromInt(range.min))
    THEN FSub(y, FMul(FSub(FromInt(range.min), value), rate))
    ELSE IF FLess(FromInt(range.max), value)
    THEN FSub(y, FMul(FSub(value, FromInt(range.max)), rate))
    ELSE y

\* yield_estimate after steps 1 to 3
YieldAfterWeather(body) ==
    Adjust(Adjust(FromRatio(BaseYield(Crop(body)).num, BaseYield(Crop(body)).den),
                  ToFloat(body.temperature, DefaultTemperature),
                  IdealTemp(Crop(body)), TempPenaltyRate),
           ToFloat(body.rainfall, DefaultRainfall),
           OptimalRainfall(Crop(body)), RainPenaltyRate)

\* Faulty variant: the result of the parse is not checked, a failure counts as a date
DateAppliesUnchecked(body) == Truthy(Get(body.planting_date))

\* Step 4: whether a date is applied, and the days elapsed.  A falsy
\* planting_date is skipped; whatever strptime raises is swallowed.
DateApplies(body) ==
    /\ Truthy(Get(body.planting_date))
    /\ body.planting_date.t = "str"
    /\ ParseDate(body.planting_date.s) # ParseFail

DaysSincePlanting(body, now) == now - ParseDate(body.planting_date.s)

\* Faulty variant: the not-matured bound is inclusive (<= for <)
DateFactorInclusive(y, days) ==
    IF days <= NotMaturedDays THEN FMul(y, NotMaturedFactor)
    ELSE IF days > HarvestPassedDays THEN FMul(y, HarvestPassedFactor)
    ELSE y

DateFactor(y, days) ==
    IF days < NotMaturedDays THEN FMul(y, NotMaturedFactor)
    ELSE IF days > HarvestPassedDays THEN FMul(y, HarvestPassedFactor)
    ELSE y

YieldEstimate(body, now) ==
    IF DateApplies(body)
    THEN DateFactor(YieldAfterWeather(body), DaysSincePlanting(body, now))
    ELSE YieldAfterWeather(body)

\* Faulty variant: * written for %, and the clamp left out
ConfidenceTimesNoClamp(y) ==
    PyInt(FAdd(FromInt(ConfidenceBase), FMul(y, FromInt(ConfidenceModulus))))

\* Step 5
Confidence(y) ==
    Min(Max(PyInt(FAdd(FromInt(ConfidenceBase),
                       PyMod(y, FromInt(ConfidenceModulus)))),
            ConfidenceMin),
        ConfidenceMax)

Tips(crop) ==
    << <<"Ideal soil for ", Capitalize(crop), " detected (U+1F331)">>,
       <<"Weather conditions suggest moderate growth potential">> >>

NoBody == [error |-> "Internal Server Error"]

\* The handler's outcome: 200 with the result, or 500 when an exception
\* leaves the handler
PredictResult(body, y) ==
    [status |-> 200,
     json |-> [predicted_yield |-> PyRound(y, YieldScale),
               confidence |-> Confidence(y),
               tips |-> Tips(Crop(body))],
     yield_estimate |-> y]

Predict(body, now) ==
    IF ~CropOk(body) \/ ~FloatOk(body.temperature) \/ ~FloatOk(body.rainfall)
    THEN [status |-> 500, json |-> NoBody, yield_estimate |-> FZero(0)]
    ELSE PredictResult(body, YieldEstimate(body, now))

(***************************************************************************)
(* insights(): POST /insights                                              *)
(***************************************************************************)
ErrorBody == [error |-> "Latitude and longitude required"]

\* Faulty variant: rejects only when both coordinates are missing (and for or)
CoordinatesMissingBoth(body) ==
    ~Truthy(Get(body.latitude)) /\ ~Truthy(Get(body.longitude))

\* if not lat or not lon
CoordinatesMissing(body) ==
    ~Truthy(Get(body.latitude)) \/ ~Truthy(Get(body.longitude))

\* The GET the handler issues
WeatherUrl(body, key) ==
    [host |-> "api.openweathermap.org", path |-> "/data/2.5/weather",
     lat |-> body.latitude, lon |-> body.longitude,
     appid |-> key, units |-> "metric"]

PhBase == 6
PhRainDivisor == 50
CarbonBase == 1
CarbonHumidityDivisor == 100
NitrogenBase == 40
NitrogenRainDivisor == 2
GoodRainAbove == 30
ModerateRainAbove == 10
OneDecimal == 10
Hundredths == 100

\* weather_data.get("rain", {}).get("1h", 0)
Rainfall(reply) ==
    IF reply.rain /\ reply.rain1h.t # "absent" THEN reply.rain1h ELSE JNum(0, 1)

\* requests.get(url).json() returned a dict holding what the handler
\* subscripts (main.humidity, main.temp) as numbers, and a rain volume, if
\* any, that is a number; anything else raises
ReplyUsable(reply) ==
    /\ reply.kind = "object"
    /\ reply.main
    /\ reply.humidity.t = "num"
    /\ reply.temp.t = "num"
    /\ Rainfall(reply).t = "num"

\* Faulty variant: the Good tier starts at 30 (>= for >)
IrrigationInclusive(rainfall) ==
    IF ~FLess(rainfall, FromInt(GoodRainAbove))
    THEN [status |-> "Good", efficiency |-> 90,
          index |-> [n |-> 85, scale |-> Hundredths]]
    ELSE IF FLess(FromInt(ModerateRainAbove), rainfall)
    THEN [status |-> "Moderate", efficiency |-> 75,
          index |-> [n |-> 70, scale |-> Hundredths]]
    ELSE [status |-> "Low", efficiency |-> 60,
          index |-> [n |-> 55, scale |-> Hundredths]]

Irrigation(rainfall) ==
    IF FLess(FromInt(GoodRainAbove), rainfall)
    THEN [status |-> "Good", efficiency |-> 90,
          index |-> [n |-> 85, scale |-> Hundredths]]
    ELSE IF FLess(FromInt(ModerateRainAbove), rainfall)
            /\ ~FLess(FromInt(GoodRainAbove), rainfall)
    THEN [status |-> "Moderate", efficiency |-> 75,
          index |-> [n |-> 70, scale |-> Hundredths]]
    ELSE [status |-> "Low", efficiency |-> 60,
          index |-> [n |-> 55, scale |-> Hundredths]]

Ph(rainfall) ==
    PyRound(FAdd(FromInt(PhBase), FDivInt(rainfall, PhRainDivisor)), OneDecimal)

Carbon(humidity) ==
    PyRound(FAdd(FromInt(CarbonBase), FDivInt(humidity, CarbonHumidityDivisor)),
            OneDecimal)

\* Faulty variant: round() for int()
NitrogenRounded(rainfall) ==
    NitrogenBase + PyRound(FDivInt(rainfall, NitrogenRainDivisor), 1).n

Nitrogen(rainfall) == NitrogenBase + PyInt(FDivInt(rainfall, NitrogenRainDivisor))

\* The handler's outcome once requests.get(url).json() has returned or raised
InsightsResult(reply, r, rainfall, humidity, temp) ==
    [status |-> 200,
     json |-> [weather |-> [temp |-> PyRound(temp, OneDecimal),
                            rainfall |-> r,
                            humidity |-> reply.humidity],
               soil |-> [ph |-> Ph(rainfall),
                         carbon |-> Carbon(humidity),
                         nitrogen |-> Nitrogen(rainfall)],
               irrigation |-> Irrigation(rainfall)]]

Insights(reply) ==
    IF ~ReplyUsable(reply) THEN [status |-> 500, json |-> NoBody]
    ELSE InsightsResult(reply, Rainfall(reply),
                        FromRatio(Rainfall(reply).num, Rainfall(reply).den),
                        FromRatio(reply.humidity.num, reply.humidity.den),
                        FromRatio(reply.temp.num, reply.temp.den))

(***************************************************************************)
(* The server.  Each worker handles one request at a time; predict() runs  *)
(* without waiting, insights() waits for the weather provider between the  *)
(* GET and the reply.  today is the date datetime.now() reads, and         *)
(* OPENWEATHER_API_KEY the module-level configuration the handlers read.   *)
(***************************************************************************)
VARIABLES today, workers, OPENWEATHER_API_KEY

vars == <<today, workers, OPENWEATHER_API_KEY>>

MaxTicks == 2
NumWorkers == 2
ConcTicks == 1

DefaultApiKey == "044020aeb958d75f8f002c0adcf17980"

BaseDay == Ordinal(2024, 7, 1)

NoUrl == [host |-> "", path |-> "", lat |-> JAbsent, lon |-> JAbsent,
          appid |-> "", units |-> ""]

NoReply == [kind |-> "none", main |-> FALSE, humidity |-> JAbsent,
            temp |-> JAbsent, rain |-> FALSE, rain1h |-> JAbsent]

Idle == [pc |-> "idle", route |-> "none", body |-> <<>>, at |-> 0, gets |-> 0,
         url |-> NoUrl, reply |-> NoReply, status |-> 0, json |-> <<>>,
         yield_estimate |-> FZero(0)]

\* POST /predict: the whole handler
PredictDone(body, at, out) ==
    [Idle EXCEPT !.pc = "done", !.route = "predict", !.body = body, !.at = at,
                 !.status = out.status, !.json = out.json,
                 !.yield_estimate = out.yield_estimate]

\* Faulty variant: the request data is merged into a dict shared by the requests, so
\* a key this body leaves out keeps the value of a request still at hand
FillFrom(v, other) == IF v.t = "absent" THEN other ELSE v

SharedData(w, body) ==
    IF \E v \in DOMAIN workers : v # w /\ workers[v].route = "predict"
    THEN LET o == workers[CHOOSE v \in DOMAIN workers :
                              v # w /\ workers[v].route = "predict"].body
         IN  PredictBody(FillFrom(body.crop_type, o.crop_type),
                         FillFrom(body.temperature, o.temperature),
                         FillFrom(body.rainfall, o.rainfall),
                         FillFrom(body.planting_date, o.planting_date))
    ELSE body

PostPredictSharedData(w, body) ==
    /\ workers[w].pc = "idle"
    /\ workers' = [workers EXCEPT ![w] =
           PredictDone(body, today, Predict(SharedData(w, body), today))]
    /\ UNCHANGED <<today, OPENWEATHER_API_KEY>>

PostPredict(w, body) ==
    /\ workers[w].pc = "idle"
    /\ workers' = [workers EXCEPT ![w] = PredictDone(body, today, Predict(body, today))]
    /\ UNCHANGED <<today, OPENWEATHER_API_KEY>>

\* POST /insights up to requests.get(url): the 400 reply, or the GET
PostInsights(w, body) ==
    /\ workers[w].pc = "idle"
    /\ workers' = [workers EXCEPT ![w] =
           IF CoordinatesMissing(body)
           THEN [Idle EXCEPT !.pc = "done", !.route = "insights",
                             !.body = body, !.at = today, !.status = 400,
                             !.json = ErrorBody]
           ELSE [Idle EXCEPT !.pc = "fetch", !.route = "insights",
                             !.body = body, !.at = today, !.gets = 1,
                             !.url = WeatherUrl(body, OPENWEATHER_API_KEY)]]
    /\ UNCHANGED <<today, OPENWEATHER_API_KEY>>

\* requests.get(url).json() returns or raises, and the handler runs to its end
InsightsDone(worker, reply, out) ==
    [worker EXCEPT !.pc = "done", !.reply = reply, !.status = out.status,
                   !.json = out.json]

\* Faulty variant: a reply the handler cannot use is fetched once more
ProviderReplyRetry(w, reply) ==
    /\ workers[w].pc = "fetch"
    /\ workers' = [workers EXCEPT ![w] =
           IF ~ReplyUsable(reply) /\ workers[w].gets < 2
           THEN [workers[w] EXCEPT !.gets = @ + 1]
           ELSE InsightsDone(workers[w], reply, Insights(reply))]
    /\ UNCHANGED <<today, OPENWEATHER_API_KEY>>

ProviderReply(w, reply) ==
    /\ workers[w].pc = "fetch"
    /\ workers' = [workers EXCEPT ![w] = InsightsDone(workers[w], reply, Insights(reply))]
    /\ UNCHANGED <<today, OPENWEATHER_API_KEY>>

\* The response is sent and the worker takes the next request
Respond(w) ==
    /\ workers[w].pc = "done"
    /\ workers' = [workers EXCEPT ![w] = Idle]
    /\ UNCHANGED <<today, OPENWEATHER_API_KEY>>

\* Midnight passes
Tick ==
    /\ today < BaseDay + MaxTicks
    /\ today' = today + 1
    /\ UNCHANGED <<workers, OPENWEATHER_API_KEY>>

(***************************************************************************)
(* The requests and provider replies of the model.                         *)
(***************************************************************************)
Crops == {JAbsent, JNull, JStr(Str("wheat")), JStr(Str("Rice")),
          JStr(Str("MAIZE")), JStr(Str("barley"))}

Temperatures == {JAbsent, JNum(-1, 1), JNum(18, 1), JNum(215, 10), JNum(30, 1),
                 JStr(Str("abc"))}

Rainfalls == {JAbsent, JNum(0, 1), JNum(30, 1), JNum(38, 1), JNum(60, 1),
              JNum(1255, 10), JNum(300, 1)}

\* Relative to BaseDay: 59, 60, 180 and 181 days old, a future date, the
\* one-digit form of a 59 days old date, and strings strptime rejects
PlantingDates ==
    {JAbsent, JNull, JStr(<<>>),
     JStr(<<"0","3","-","0","5","-","2","0","2","4">>),
     JStr(<<"0","2","-","0","5","-","2","0","2","4">>),
     JStr(<<"0","3","-","0","1","-","2","0","2","4">>),
     JStr(<<"0","2","-","0","1","-","2","0","2","4">>),
     JStr(<<"1","5","-","0","8","-","2","0","2","4">>),
     JStr(<<"3","-","5","-","2","0","2","4">>),
     JStr(<<"3","1","-","0","2","-","2","0","2","4">>),
     JStr(<<"2","0","2","4","-","0","5","-","0","3">>),
     JStr(<<"n","o","t","-","a","-","d","a","t","e">>),
     JNum(20240503, 1)}

PredictBodies ==
    {PredictBody(c, t, r, JAbsent) : c \in Crops, t \in Temperatures,
                                     r \in Rainfalls}
    \cup {PredictBody(c, t, r, d) :
              c \in {JAbsent, JStr(Str("wheat"))},
              t \in {JNum(18, 1), JNum(30, 1)},
              r \in {JAbsent, JNum(30, 1)},
              d \in PlantingDates}

InsightsBody(lat, lon) == [latitude |-> lat, longitude |-> lon]

Latitudes == {JAbsent, JNull, JNum(0, 1), JStr(<<>>), JNum(125, 10),
              JNum(-33, 1), JStr(<<"1","2",".","5">>)}

Longitudes == {JAbsent, JNull, JNum(0, 1), JStr(<<>>), JNum(77, 1)}

InsightsBodies == {InsightsBody(lat, lon) : lat \in Latitudes, lon \in Longitudes}

Reply(kind, main, humidity, temp, rain, rain1h) ==
    [kind |-> kind, main |-> main, humidity |-> humidity, temp |-> temp,
     rain |-> rain, rain1h |-> rain1h]

\* Replies the handler cannot use: the call raises, the body is no JSON, it is
\* JSON without main (the provider's own error replies), main lacks a key, or
\* the rain volume is null
BadReplies ==
    {Reply("neterr", FALSE, JAbsent, JAbsent, FALSE, JAbsent),
     Reply("badjson", FALSE, JAbsent, JAbsent, FALSE, JAbsent),
     Reply("object", FALSE, JAbsent, JAbsent, FALSE, JAbsent),
     Reply("object", TRUE, JAbsent, JNum(20, 1), TRUE, JNum(40, 1)),
     Reply("object", TRUE, JNum(60, 1), JAbsent, TRUE, JNum(40, 1)),
     Reply("object", TRUE, JNum(60, 1), JNum(20, 1), TRUE, JNull)}

RainVolumes == {JNum(0, 1), JNum(25, 100), JNum(25, 10), JNum(10, 1),
                JNum(1001, 100), JNum(30, 1), JNum(3001, 100), JNum(40, 1),
                JNum(75, 10)}

Humidities == {JNum(0, 1), JNum(60, 1), JNum(65, 1), JNum(85, 1), JNum(100, 1)}

ProviderTemps == {JNum(20, 1), JNum(-314, 100)}

GoodReplies ==
    {Reply("object", TRUE, h, t, TRUE, r) :
         h \in Humidities, t \in ProviderTemps, r \in RainVolumes}
    \cup {Reply("object", TRUE, h, JNum(20, 1), FALSE, JAbsent) : h \in Humidities}
    \cup {Reply("object", TRUE, h, JNum(20, 1), TRUE, JAbsent) : h \in Humidities}

Replies == BadReplies \cup GoodReplies

SeqWorkers == {1}

Init ==
    /\ today = BaseDay
    /\ workers = [w \in SeqWorkers |-> Idle]
    /\ OPENWEATHER_API_KEY = DefaultApiKey

Next ==
    \/ \E w \in SeqWorkers, body \in PredictBodies : PostPredict(w, body)
    \/ \E w \in SeqWorkers, body \in InsightsBodies : PostInsights(w, body)
    \/ \E w \in SeqWorkers, reply \in Replies : ProviderReply(w, reply)
    \/ \E w \in SeqWorkers : Respond(w)
    \/ Tick

Spec == Init /\ [][Next]_vars

(***************************************************************************)
(* Several workers at once (a threaded server): requests overlap, and an   *)
(* /insights request stays open while others come and go.                  *)
(***************************************************************************)
ConcWorkers == 1..NumWorkers

ConcPredictBodies ==
    {PredictBody(JStr(Str("wheat")), JNum(30, 1), JNum(30, 1), JAbsent),
     PredictBody(JStr(Str("wheat")), JAbsent, JNum(30, 1), JAbsent),
     PredictBody(JAbsent, JNum(30, 1), JAbsent,
                 JStr(<<"0","3","-","0","5","-","2","0","2","4">>))}

ConcInsightsBodies ==
    {InsightsBody(JNum(125, 10), JNum(77, 1)), InsightsBody(JNum(0, 1), JNum(77, 1))}

ConcReplies ==
    {Reply("object", TRUE, JNum(60, 1), JNum(20, 1), TRUE, JNum(40, 1)),
     Reply("neterr", FALSE, JAbsent, JAbsent, FALSE, JAbsent)}

ConcTick ==
    /\ today < BaseDay + ConcTicks
    /\ today' = today + 1
    /\ UNCHANGED <<workers, OPENWEATHER_API_KEY>>

InitConc ==
    /\ today = BaseDay
    /\ workers = [w \in ConcWorkers |-> Idle]
    /\ OPENWEATHER_API_KEY = DefaultApiKey

NextConc ==
    \/ \E w \in ConcWorkers, body \in ConcPredictBodies : PostPredict(w, body)
    \/ \E w \in ConcWorkers, body \in ConcInsightsBodies : PostInsights(w, body)
    \/ \E w \in ConcWorkers, reply \in ConcReplies : ProviderReply(w, reply)
    \/ \E w \in ConcWorkers : Respond(w)
    \/ ConcTick

SpecConc == InitConc /\ [][NextConc]_vars

(***************************************************************************)
(* What the specification says, in exact decimal arithmetic, to state the  *)
(* properties against.                                                     *)
(***************************************************************************)
Done(w) == workers[w].pc = "done"
PredictDoneAt(w) == Done(w) /\ workers[w].route = "predict"
InsightsDoneAt(w) == Done(w) /\ workers[w].route = "insights"
Completed(w) == PredictDoneAt(w) /\ workers[w].status = 200

\* Two strings equal up to the case of their letters
EqIgnoreCase(a, b) ==
    /\ Len(a) = Len(b)
    /\ \A i \in DOMAIN a :
           \/ a[i] = b[i]
           \/ \E k \in DOMAIN UpperChars :
                  {a[i], b[i]} = {UpperChars[k], LowerChars[k]}

SpecCropIs(body, name) ==
    body.crop_type.t = "str" /\ EqIgnoreCase(body.crop_type.s, Str(name))

\* base, ideal temperature range and optimal rainfall range; the base in 1/10
SpecRow(body) ==
    IF SpecCropIs(body, "wheat")
    THEN [base |-> 40, tmin |-> 18, tmax |-> 25, rmin |-> 40, rmax |-> 60]
    ELSE IF SpecCropIs(body, "rice")
    THEN [base |-> 50, tmin |-> 22, tmax |-> 30, rmin |-> 80, rmax |-> 120]
    ELSE IF SpecCropIs(body, "maize")
    THEN [base |-> 45, tmin |-> 20, tmax |-> 28, rmin |-> 50, rmax |-> 90]
    ELSE [base |-> 35, tmin |-> 20, tmax |-> 30, rmin |-> 50, rmax |-> 100]

\* A reading in 1/10000, the default when the key is missing
SpecReading(v, default) ==
    IF v.t = "absent" THEN default * 10000 ELSE v.num * (10000 \div v.den)

\* Distance of v from [lo, hi], all in 1/10000
SpecDistance(v, lo, hi) ==
    IF v < lo * 10000 THEN lo * 10000 - v
    ELSE IF v > hi * 10000 THEN v - hi * 10000
    ELSE 0

SpecDT(body) ==
    SpecDistance(SpecReading(body.temperature, 25),
                 SpecRow(body).tmin, SpecRow(body).tmax)

SpecDR(body) ==
    SpecDistance(SpecReading(body.rainfall, 50),
                 SpecRow(body).rmin, SpecRow(body).rmax)

\* base - 0.2 * dT - 0.1 * dR, in 1/100000
SpecAdjusted(body) ==
    SpecRow(body).base * 10000 - 2 * SpecDT(body) - SpecDR(body)

\* The same after the planting-date multiplier for d days, in 1/1000000
SpecAged(body, d) ==
    IF d < 60 THEN 8 * SpecAdjusted(body)
    ELSE IF d > 180 THEN 9 * SpecAdjusted(body)
    ELSE 10 * SpecAdjusted(body)

\* n/100 is v/1000000 rounded to two decimals
IsRoundedTo2(n, v) == Abs(n * 10000 - v) <= 5000

\* A number, or the key left out (the default applies)
Numeric(v) == v.t \in {"num", "absent"}

\* C3: without a planting date the yield is base(crop) - 0.2*dT - 0.1*dR, the
\* crop matched case-insensitively against the table (any other or missing
\* crop: base 3.5, 20-30, 50-100), dT and dR the distances from the ranges,
\* endpoints included; inside both ranges it is exactly the base.  The float
\* agrees with the decimal value to 2^-40, and predicted_yield is that value to
\* two decimals.
C3_YieldFormula ==
    \A w \in DOMAIN workers :
        (Completed(w) /\ workers[w].body.planting_date.t = "absent"
         /\ Numeric(workers[w].body.temperature) /\ Numeric(workers[w].body.rainfall))
        => /\ FNear(workers[w].yield_estimate,
                    10 * SpecAdjusted(workers[w].body), 1000000)
           /\ IsRoundedTo2(workers[w].json.predicted_yield.n,
                           10 * SpecAdjusted(workers[w].body))
           /\ (SpecDT(workers[w].body) = 0 /\ SpecDR(workers[w].body) = 0)
              => workers[w].yield_estimate
                 = FromRatio(SpecRow(workers[w].body).base, 10)

\* C3 witness: rice written "Rice", too cold and too wet, both penalties apply
C3_Witness ==
    \E w \in DOMAIN workers :
        /\ Completed(w)
        /\ workers[w].body = PredictBody(JStr(Str("Rice")), JNum(215, 10),
                                         JNum(1255, 10), JAbsent)
        /\ workers[w].json.predicted_yield.n = 435

\* The planting date is a string strptime accepts
DateGiven(body) ==
    body.planting_date.t = "str" /\ ParseDate(body.planting_date.s) # ParseFail

\* C4: with a planting date that parses, d whole days before now, the yield
\* after the temperature and rainfall penalties is multiplied by 0.8 when
\* d < 60 (future dates too), by 0.9 when d > 180, and left alone when
\* 60 <= d <= 180; the multiplier comes after the penalties.
C4_PlantingDateFactor ==
    \A w \in DOMAIN workers :
        (Completed(w) /\ DateGiven(workers[w].body)
         /\ Numeric(workers[w].body.temperature) /\ Numeric(workers[w].body.rainfall))
        => /\ FNear(workers[w].yield_estimate,
                    SpecAged(workers[w].body,
                             workers[w].at - ParseDate(workers[w].body.planting_date.s)),
                    1000000)
           /\ IsRoundedTo2(workers[w].json.predicted_yield.n,
                           SpecAged(workers[w].body,
                                    workers[w].at
                                    - ParseDate(workers[w].body.planting_date.s)))

\* C4 witness: a date exactly 60 days old on a penalised yield, left alone
C4_Witness ==
    \E w \in DOMAIN workers :
        /\ Completed(w)
        /\ DateGiven(workers[w].body)
        /\ workers[w].at - ParseDate(workers[w].body.planting_date.s) = 60
        /\ SpecDT(workers[w].body) > 0 /\ SpecDR(workers[w].body) > 0
        /\ workers[w].json.predicted_yield.n * 1000 = SpecAdjusted(workers[w].body)

\* The key is missing or its value is None, 0 or ""
SpecFalsy(v) == v \in {JAbsent, JNull, JNum(0, 1), JStr(<<>>)}

\* C1: an /insights request whose latitude or longitude is absent or falsy is
\* answered 400 with {"error": "Latitude and longitude required"}, and no GET
\* to the weather provider is issued for it.
C1_MissingCoordinates ==
    \A w \in DOMAIN workers :
        (workers[w].route = "insights"
         /\ (SpecFalsy(workers[w].body.latitude)
             \/ SpecFalsy(workers[w].body.longitude)))
        => /\ workers[w].pc = "done"
           /\ workers[w].status = 400
           /\ workers[w].json = [error |-> "Latitude and longitude required"]
           /\ workers[w].gets = 0
           /\ workers[w].url = NoUrl

\* C1 witness: latitude present, longitude 0
C1_Witness ==
    \E w \in DOMAIN workers :
        /\ InsightsDoneAt(w)
        /\ workers[w].body = InsightsBody(JNum(125, 10), JNum(0, 1))
        /\ workers[w].status = 400

\* C2: the confidence of every completed /predict is an integer from 50 to 95.
C2_ConfidenceRange ==
    \A w \in DOMAIN workers :
        Completed(w) => workers[w].json.confidence \in 50..95

\* C2 witness: a completed request whose yield_estimate is negative
C2_Witness ==
    \E w \in DOMAIN workers :
        /\ Completed(w)
        /\ workers[w].yield_estimate.s = 1
        /\ workers[w].json.predicted_yield.n < -1000

\* C5: a planting_date that is given but does not parse gives the response
\* (status 200, predicted_yield, confidence, tips) and the yield_estimate of
\* the same request without planting_date.
WithoutDate(body) == [body EXCEPT !.planting_date = JAbsent]

C5_UnparsableDateIgnored ==
    \A w \in DOMAIN workers :
        (PredictDoneAt(w) /\ workers[w].body.planting_date.t # "absent"
         /\ ~DateGiven(workers[w].body)
         /\ workers[w].body.crop_type.t \in {"absent", "str"}
         /\ Numeric(workers[w].body.temperature) /\ Numeric(workers[w].body.rainfall))
        => /\ workers[w].status = 200
           /\ workers[w].json
              = Predict(WithoutDate(workers[w].body), workers[w].at).json
           /\ workers[w].yield_estimate
              = Predict(WithoutDate(workers[w].body), workers[w].at).yield_estimate
           /\ FNear(workers[w].yield_estimate,
                    10 * SpecAdjusted(workers[w].body), 1000000)

\* C5 witness: 31-02-2024 has the shape of a date and names no day
C5_Witness ==
    \E w \in DOMAIN workers :
        /\ Completed(w)
        /\ workers[w].body.planting_date
           = JStr(<<"3","1","-","0","2","-","2","0","2","4">>)
        /\ SpecDT(workers[w].body) > 0

\* The provider's reply carries main.humidity and main.temp, and the rain
\* volume, if any, as numbers
SpecReplyComplete(reply) ==
    /\ reply.kind = "object"
    /\ reply.main
    /\ reply.humidity.t = "num"
    /\ reply.temp.t = "num"
    /\ ~(reply.rain /\ reply.rain1h.t = "null")

SpecRain(reply) ==
    IF reply.rain /\ reply.rain1h.t = "num" THEN reply.rain1h ELSE JNum(0, 1)

\* n/10 is num/den rounded to one decimal
IsRoundedTo1(n, num, den) == Abs(2 * n * den - 20 * num) <= den

\* C6: for a reply with humidity h and rain volume r >= 0 (0 without a rain
\* entry) the response reports rainfall r, humidity h, nitrogen
\* 40 + floor(r/2), ph 6 + r/50 and carbon 1 + h/100 to one decimal; the reply
\* {temp 20, humidity 60, rain 1h 40} gives 40, 60, 6.8, 1.6, 60 and temp 20.0.
C6_SoilMetrics ==
    \A w \in DOMAIN workers :
        (InsightsDoneAt(w) /\ workers[w].status = 200)
        => /\ workers[w].json.weather.rainfall = SpecRain(workers[w].reply)
           /\ workers[w].json.weather.humidity = workers[w].reply.humidity
           /\ workers[w].json.soil.nitrogen
              = 40 + SpecRain(workers[w].reply).num
                     \div (2 * SpecRain(workers[w].reply).den)
           /\ IsRoundedTo1(workers[w].json.soil.ph.n,
                           300 * SpecRain(workers[w].reply).den
                           + SpecRain(workers[w].reply).num,
                           50 * SpecRain(workers[w].reply).den)
           /\ IsRoundedTo1(workers[w].json.soil.carbon.n,
                           100 * workers[w].reply.humidity.den
                           + workers[w].reply.humidity.num,
                           100 * workers[w].reply.humidity.den)
           /\ workers[w].reply
              = Reply("object", TRUE, JNum(60, 1), JNum(20, 1), TRUE, JNum(40, 1))
              => /\ workers[w].json.soil.ph.n = 68
                 /\ workers[w].json.soil.carbon.n = 16
                 /\ workers[w].json.soil.nitrogen = 60
                 /\ workers[w].json.weather.temp.n = 200

\* C6 witness: a rain volume of 7.5 (nitrogen 43, ph 6.15 to one decimal)
C6_Witness ==
    \E w \in DOMAIN workers :
        /\ InsightsDoneAt(w) /\ workers[w].status = 200
        /\ workers[w].reply.rain1h = JNum(75, 10)
        /\ workers[w].reply.humidity = JNum(85, 1)
        /\ workers[w].json.soil.nitrogen = 43

\* C7: rainfall r > 30 gives (Good, 90, 0.85), 10 < r <= 30 gives
\* (Moderate, 75, 0.7), r <= 10 gives (Low, 60, 0.55); 30 is Moderate, 10 is
\* Low, no rain entry is Low.
SpecTier(r) ==
    IF r.num > 30 * r.den THEN <<"Good", 90, 85>>
    ELSE IF r.num > 10 * r.den THEN <<"Moderate", 75, 70>>
    ELSE <<"Low", 60, 55>>

C7_IrrigationTier ==
    \A w \in DOMAIN workers :
        (InsightsDoneAt(w) /\ workers[w].status = 200)
        => <<workers[w].json.irrigation.status,
             workers[w].json.irrigation.efficiency,
             workers[w].json.irrigation.index.n>>
           = SpecTier(SpecRain(workers[w].reply))

\* C7 witness: a rain volume of exactly 30 is Moderate
C7_Witness ==
    \E w \in DOMAIN workers :
        /\ InsightsDoneAt(w) /\ workers[w].status = 200
        /\ workers[w].reply.rain1h = JNum(30, 1)
        /\ workers[w].json.irrigation.status = "Moderate"

\* floor(y mod 5) for the exact value of the float y, the remainder taken in
\* [0, 5)
SpecFloorMod5(y) ==
    IF IsZero(y) THEN 0
    ELSE LET fm == FFmod([y EXCEPT !.s = 0], FromInt(5))
             fl == PyInt(fm)
         IN  IF y.s = 0 THEN fl
             ELSE IF IsZero(fm) THEN 0
             ELSE IF FEq(fm, FromInt(fl)) THEN 5 - fl
             ELSE 4 - fl

\* C8: confidence = clamp(floor(80 + (y mod 5)), 50, 95) for the final
\* yield_estimate y, the remainder non-negative and below 5.
C8_ConfidenceFormula ==
    \A w \in DOMAIN workers :
        Completed(w)
        => workers[w].json.confidence
           = Min(Max(80 + SpecFloorMod5(workers[w].yield_estimate), 50), 95)

\* C9: an accepted /insights request issues exactly one GET, never a second;
\* when the call fails, the body is no JSON, or main.humidity or main.temp is
\* missing, the request ends in an error and no result is returned.
C9_OneGetNoRetry ==
    \A w \in DOMAIN workers :
        /\ workers[w].gets <= 1
        /\ workers[w].pc = "fetch" => workers[w].gets = 1
        /\ (InsightsDoneAt(w) /\ workers[w].status # 400) => workers[w].gets = 1
        /\ (InsightsDoneAt(w) /\ workers[w].gets = 1
            /\ ~SpecReplyComplete(workers[w].reply))
           => workers[w].status = 500 /\ workers[w].json = NoBody
        /\ (InsightsDoneAt(w) /\ workers[w].status = 200)
           => SpecReplyComplete(workers[w].reply)

\* C9 witness: the reply has main.humidity and no main.temp
C9_Witness ==
    \E w \in DOMAIN workers :
        /\ InsightsDoneAt(w)
        /\ workers[w].reply
           = Reply("object", TRUE, JNum(60, 1), JAbsent, TRUE, JNum(40, 1))
        /\ workers[w].status = 500
        /\ workers[w].gets = 1

\* C10: whatever ran before or runs at the same time, a response depends on
\* the request's own body, the date and the provider's reply: equal /predict
\* bodies handled on the same date have equal responses, a GET carries the
\* request's own coordinates, and no handler writes the module's state.
C10_RequestsIndependent ==
    /\ OPENWEATHER_API_KEY = DefaultApiKey
    /\ \A w1, w2 \in DOMAIN workers :
           (PredictDoneAt(w1) /\ PredictDoneAt(w2)
            /\ workers[w1].body = workers[w2].body
            /\ workers[w1].at = workers[w2].at)
           => /\ workers[w1].status = workers[w2].status
              /\ workers[w1].json = workers[w2].json
    /\ \A w1, w2 \in DOMAIN workers :
           (InsightsDoneAt(w1) /\ InsightsDoneAt(w2)
            /\ workers[w1].body = workers[w2].body
            /\ workers[w1].reply = workers[w2].reply)
           => /\ workers[w1].status = workers[w2].status
              /\ workers[w1].json = workers[w2].json
    /\ \A w \in DOMAIN workers :
           workers[w].gets = 1
           => /\ workers[w].url.lat = workers[w].body.latitude
              /\ workers[w].url.lon = workers[w].body.longitude
              /\ workers[w].url.appid = DefaultApiKey

\* C10 witness: two workers hold equal /predict requests of the same date,
\* answered alike, while the date has moved on since the start
C10_Witness ==
    \E w1, w2 \in DOMAIN workers :
        /\ w1 # w2
        /\ Completed(w1) /\ Completed(w2)
        /\ workers[w1].body = workers[w2].body
        /\ workers[w1].body.temperature = JAbsent
        /\ workers[w1].at = workers[w2].at
        /\ today > workers[w1].at

====
